---- MODULE Spec2Model ----
(***************************************************************************)
(* Verification model of noshow_predictor.py: the retained state of the   *)
(* NoShowPredictor / DataPreprocessor objects and of the Flask module      *)
(* globals, the /train handler taken statement by statement (so that      *)
(* requests served by other threads interleave with it), and the /predict *)
(* and /model_performance handlers, each taken as one step.                *)
(*                                                                         *)
(* Environment: one /train request at a time (the single writer), any     *)
(* number of /predict and /model_performance requests between its         *)
(* statements (Flask's development server serves each request on its own  *)
(* thread).                                                                *)
(*                                                                         *)
(* Conventions: Python None is NoModel for a model object, "None" for a   *)
(* name and 0 for a data-set object; a dict is the sequence of its items  *)
(* in insertion order; an object created by training run r carries run r. *)
(* Probabilities are counted in thousandths.                               *)
(***************************************************************************)
EXTENDS Integers, Sequences, FiniteSets, TLC

VARIABLES
    models,            \* predictor.models
    best_model,        \* predictor.best_model
    best_model_name,   \* predictor.best_model_name
    label_encoders,    \* predictor.preprocessor.label_encoders
    model_results,     \* module global model_results
    X_test_global,     \* module global X_test_global (run of the object, 0 = None)
    y_test_global,     \* module global y_test_global (run of the object, 0 = None)
    pc,                \* position of the /train request in train_model
    run,               \* the training run the /train request is executing
    results,           \* train_models' local dict results
    auc,               \* ROC-AUC each algorithm reaches on the (seeded) data
    runs,              \* history: /train requests started so far
    completed,         \* history: some /train request has returned success
    start,             \* history: the retained state when the /train in progress began
    trainResp,         \* response of the last /train request
    resp               \* response of the last /predict, predict_single or /model_performance

vars == <<models, best_model, best_model_name, label_encoders, model_results,
          X_test_global, y_test_global, pc, run, results, auc, runs, completed,
          start, trainResp, resp>>

retained == <<models, best_model, best_model_name, label_encoders, model_results,
              X_test_global, y_test_global>>

(***************************************************************************)
(* Bounds                                                                  *)
(***************************************************************************)
MaxRuns == 2      \* /train requests per behaviour
MaxAuc == 1       \* ROC-AUC levels 0..MaxAuc

(***************************************************************************)
(* Program constants                                                       *)
(***************************************************************************)
HighThreshold == 600
MediumThreshold == 300

\* train_models' menu, in the dict's insertion order
Menu == <<"Random Forest", "Gradient Boosting", "Logistic Regression", "SVM">>

MenuSet == {Menu[i] : i \in 1..Len(Menu)}

\* prepare_features' feature_cols
feature_cols == {"Age", "Gender", "Scholarship", "Hipertension", "Diabetes",
                 "Alcoholism", "Handcap", "SMS_received", "days_between",
                 "scheduled_weekday", "appointment_weekday", "total_conditions",
                 "risk_score", "is_weekend"}

\* the columns feature_engineering derives
engineered_cols == {"total_conditions", "risk_score", "is_weekend"}

raw_cols == feature_cols \ engineered_cols

\* the genders load_and_clean_data draws
TrainGenders == {"M", "F"}

NoModel == [algo |-> "None", run |-> 0]

\* no response is on its way to a client
NoResp == [op |-> "none"]

(***************************************************************************)
(* Python dicts and built-ins                                              *)
(***************************************************************************)
\* the keys of a dict of result entries, in insertion order
Keys(d) == [i \in 1..Len(d) |-> d[i].name]

HasKey(d, k) == \E i \in 1..Len(d) : d[i].name = k

\* d[k]
Get(d, k) == d[CHOOSE i \in 1..Len(d) : d[i].name = k]

\* d[k] = e: replaces the value of an existing key in place, else appends
DictSet(d, k, e) ==
    IF HasKey(d, k)
    THEN [i \in 1..Len(d) |-> IF d[i].name = k THEN e ELSE d[i]]
    ELSE Append(d, e)

\* (mutant of Better: a later element of equal key replaces the best so far)
BetterOrEqual(candidate, best) == candidate >= best

\* the comparison max() makes between a candidate and the best so far
Better(candidate, best) == candidate > best

\* max(keys, key=...), key given as the function from each element to its key:
\* the first element is the best so far, a later element replaces it only
\* when Better
RECURSIVE PyMaxFrom(_, _, _, _)
PyMaxFrom(keys, key, i, best) ==
    IF i > Len(keys) THEN best
    ELSE PyMaxFrom(keys, key, i + 1,
                   IF Better(key[keys[i]], key[best]) THEN keys[i] ELSE best)

PyMax(keys, key) == PyMaxFrom(keys, key, 2, keys[1])

(***************************************************************************)
(* The library's estimators, by their fit / predict / predict_proba        *)
(* contract                                                                *)
(***************************************************************************)
\* the probabilities predict_proba may return for a record, in thousandths
Probs == {0, 300, 301, 499, 501, 600, 601, 1000}

\* model.predict(X)[0] of a fitted model whose predict_proba(X)[0, 1] is p.
\* The forest, the boosting and the logistic model label by the larger class
\* probability (class 0 on a tie); SVC(probability=True) labels by the sign
\* of its decision function while predict_proba comes from a separately
\* cross-validated Platt scaling, so its label is not a function of p.
HardLabel(model, p, svc_label) ==
    IF model.algo = "SVM" THEN svc_label
    ELSE IF p > 500 THEN 1 ELSE 0

\* hasattr(model, 'feature_importances_') or hasattr(model, 'coef_')
get_feature_importance(model) ==
    IF model.algo \in {"Random Forest", "Gradient Boosting"} THEN "feature_importances_"
    ELSE IF model.algo = "Logistic Regression" THEN "coef_"
    ELSE "None"

\* LabelEncoder(): not fitted
NewLabelEncoder(r) == [fitted |-> FALSE, classes_ |-> <<>>, run |-> r]

\* the values of the model in lexicographic order
GenderAlphabet == <<"F", "M", "Other">>

\* LabelEncoder.fit: classes_ are the sorted distinct values
FittedLabelEncoder(r, values) ==
    [fitted |-> TRUE,
     classes_ |-> SelectSeq(GenderAlphabet, LAMBDA g : g \in values),
     run |-> r]

\* LabelEncoder.transform of one value: its index in classes_, or the error raised
Transform(enc, g) ==
    IF ~enc.fitted
    THEN [raised |-> TRUE, error |-> "NotFittedError", code |-> -1]
    ELSE IF \E i \in 1..Len(enc.classes_) : enc.classes_[i] = g
    THEN [raised |-> FALSE, error |-> "",
          code |-> (CHOOSE i \in 1..Len(enc.classes_) : enc.classes_[i] = g) - 1]
    ELSE [raised |-> TRUE, error |-> "ValueError: unseen label", code |-> -1]

(***************************************************************************)
(* DataPreprocessor.prepare_features, fit_encoders=False, on one record    *)
(***************************************************************************)
\* (mutant of FallbackCode: the unmapped values are left unfilled, NaN as -1)
FallbackCode_NoFill(g) == IF g = "M" THEN 1 ELSE IF g = "F" THEN 0 ELSE -1

\* X['Gender'].map({'F': 0, 'M': 1}).fillna(0)
FallbackCode(g) == IF g = "M" THEN 1 ELSE 0

\* (mutant of prepare_features_apply: the columns are taken with reindex, which
\* fills an absent column in instead of raising)
prepare_features_apply_Reindex(rec, encoders) ==
    IF "Gender" \in DOMAIN encoders
    THEN LET t == Transform(encoders["Gender"], rec.Gender)
         IN  [raised |-> t.raised, error |-> t.error, missing |-> {},
              Gender |-> t.code, read |-> {encoders["Gender"].run}]
    ELSE [raised |-> FALSE, error |-> "", missing |-> {},
          Gender |-> FallbackCode(rec.Gender), read |-> {}]

\* rec.fields are the record's keys, rec.Gender its 'Gender' value
prepare_features_apply(rec, encoders) ==
    IF ~(feature_cols \subseteq rec.fields)
    THEN [raised |-> TRUE, error |-> "KeyError",
          missing |-> feature_cols \ rec.fields, Gender |-> -1, read |-> {}]
    ELSE IF "Gender" \in DOMAIN encoders
    THEN LET t == Transform(encoders["Gender"], rec.Gender)
         IN  [raised |-> t.raised, error |-> t.error, missing |-> {},
              Gender |-> t.code, read |-> {encoders["Gender"].run}]
    ELSE [raised |-> FALSE, error |-> "", missing |-> {},
          Gender |-> FallbackCode(rec.Gender), read |-> {}]

\* (mutant of StoredAfterApply: apply mode fits an encoder on what it is given)
StoredAfterApply_Refit(rec, encoders) ==
    [g \in {"Gender"} |-> FittedLabelEncoder(0, {rec.Gender})]

\* self.label_encoders after prepare_features(df, fit_encoders=False): the
\* else branch assigns to X only
StoredAfterApply(rec, encoders) == encoders

(***************************************************************************)
(* NoShowPredictor.predict_single                                          *)
(***************************************************************************)
\* (mutant of RiskLevel: the thresholds taken inclusive)
RiskLevelInclusive(probability) ==
    IF probability >= HighThreshold THEN "High"
    ELSE IF probability >= MediumThreshold THEN "Medium"
    ELSE "Low"

RiskLevel(probability) ==
    IF probability > HighThreshold THEN "High"
    ELSE IF probability > MediumThreshold THEN "Medium"
    ELSE "Low"

\* (mutant of predict_single: the record is prepared before the model is
\* looked at)
predict_single_PrepareFirst(rec, p, svc_label) ==
    LET X == prepare_features_apply(rec, label_encoders)
    IN  IF X.raised
        THEN [kind |-> "error", error |-> X.error, missing |-> X.missing,
              encoded |-> TRUE, read |-> {best_model.run} \cup X.read]
        ELSE IF best_model = NoModel
        THEN [kind |-> "error", error |-> "ValueError: Need to train the model first!",
              missing |-> {}, encoded |-> TRUE, read |-> {0}]
        ELSE [kind |-> "ok", error |-> "", missing |-> {}, encoded |-> TRUE,
              read |-> {best_model.run} \cup X.read,
              model |-> best_model,
              no_show_probability |-> p,
              prediction |-> HardLabel(best_model, p, svc_label),
              risk_level |-> RiskLevel(p)]

\* The outcome of predict_single(rec): a result, or the exception raised.
\* p and svc_label are what the retained model answers for the record.
\* encoded tells whether prepare_features was entered; read holds the runs
\* of the retained objects the call used.
predict_single(rec, p, svc_label) ==
    IF best_model = NoModel
    THEN [kind |-> "error", error |-> "ValueError: Need to train the model first!",
          missing |-> {}, encoded |-> FALSE, read |-> {0}]
    ELSE LET X == prepare_features_apply(rec, label_encoders)
         IN  IF X.raised
             THEN [kind |-> "error", error |-> X.error, missing |-> X.missing,
                   encoded |-> TRUE, read |-> {best_model.run} \cup X.read]
             ELSE [kind |-> "ok", error |-> "", missing |-> {}, encoded |-> TRUE,
                   read |-> {best_model.run} \cup X.read,
                   model |-> best_model,
                   no_show_probability |-> p,
                   prediction |-> HardLabel(best_model, p, svc_label),
                   risk_level |-> RiskLevel(p)]

\* the /predict handler's outcome
predict(rec, p, svc_label) ==
    IF best_model = NoModel
    THEN [kind |-> "error", error |-> "Model not trained yet",
          missing |-> {}, encoded |-> FALSE, read |-> {0}]
    ELSE predict_single(rec, p, svc_label)

(***************************************************************************)
(* The /model_performance handler's outcome                                *)
(***************************************************************************)
\* (mutant of model_performance: the first entry's metrics, not the best
\* model's)
model_performance_FirstEntry ==
    IF Len(model_results) = 0 \/ best_model = NoModel
    THEN [kind |-> "error", error |-> "Model not trained yet", read |-> {0}]
    ELSE [kind |-> "ok", error |-> "",
          metrics |-> model_results[1].metrics,
          best_model |-> best_model_name,
          roc_curve_data |-> <<>>,
          feature_importance_data |-> "None",
          read |-> {model_results[1].model.run}]

model_performance ==
    IF Len(model_results) = 0 \/ best_model = NoModel
    THEN [kind |-> "error", error |-> "Model not trained yet",
          read |-> IF Len(model_results) = 0 THEN {0} ELSE {0, model_results[1].model.run}]
    ELSE LET best_result == Get(model_results, best_model_name)
         IN  [kind |-> "ok", error |-> "",
              metrics |-> best_result.metrics,
              best_model |-> best_model_name,
              roc_curve_data |->
                  IF y_test_global # 0
                  THEN <<y_test_global, best_result.probabilities>>
                  ELSE <<>>,
              feature_importance_data |->
                  IF X_test_global # 0
                  THEN get_feature_importance(best_model)
                  ELSE "None",
              read |-> {best_result.model.run, best_model.run,
                        X_test_global, y_test_global}]

(***************************************************************************)
(* NoShowPredictor.train_models                                            *)
(***************************************************************************)
\* results = {}
NewResults == <<>>

\* the entry train_models stores for one algorithm: the fitted model, its
\* metrics and its outputs on the held-out split of run r
ResultEntry(name, r) ==
    [name |-> name,
     model |-> [algo |-> name, run |-> r],
     metrics |-> [accuracy |-> <<"accuracy", name>>,
                  precision |-> <<"precision", name>>,
                  recall |-> <<"recall", name>>,
                  f1 |-> <<"f1", name>>,
                  roc_auc |-> auc[name]],
     predictions |-> [of |-> name, on |-> r],
     probabilities |-> [of |-> name, on |-> r]]

\* max(results.keys(), key=lambda x: results[x]['metrics']['roc_auc'])
PickBest(res) ==
    PyMax(Keys(res),
          [x \in {res[i].name : i \in 1..Len(res)} |-> Get(res, x).metrics.roc_auc])

\* (mutant of RetainedResults: only the winner's entry is kept)
OnlyWinner(res) == <<Get(res, PickBest(res))>>

\* what train_models stores in self.models and returns
RetainedResults(res) == res

\* the retained state, as the history variable start records it
Snapshot ==
    [models |-> models, best_model |-> best_model,
     best_model_name |-> best_model_name, label_encoders |-> label_encoders,
     model_results |-> model_results, X_test_global |-> X_test_global,
     y_test_global |-> y_test_global]

(***************************************************************************)
(* Initial state: the module has been imported, nothing is trained.  The   *)
(* data and every estimator are seeded (seed 42), so each run reaches the  *)
(* same scores: auc is chosen once.                                        *)
(***************************************************************************)
Init ==
    /\ models = <<>>
    /\ best_model = NoModel
    /\ best_model_name = "None"
    /\ label_encoders = <<>>
    /\ model_results = <<>>
    /\ X_test_global = 0
    /\ y_test_global = 0
    /\ pc = "idle"
    /\ run = 0
    /\ results = <<>>
    /\ auc \in [MenuSet -> 0..MaxAuc]
    /\ runs = 0
    /\ completed = FALSE
    /\ start = Snapshot
    /\ trainResp = [kind |-> "none"]
    /\ resp = NoResp

(***************************************************************************)
(* The /train handler, train_model, statement by statement                 *)
(***************************************************************************)
\* The /train request is at statement `at`.  resp holds the response of the
\* request served in the latest step: it is handed to its client (Deliver)
\* before /train moves on, which loses no interleaving, since no statement of
\* the program reads it.
At(at) == pc = at /\ resp = NoResp

\* a /train request arrives
TrainBegin ==
    /\ At("idle")
    /\ runs < MaxRuns
    /\ pc' = "load"
    /\ runs' = runs + 1
    /\ run' = runs + 1
    /\ start' = Snapshot
    /\ trainResp' = [kind |-> "none"]
    /\ UNCHANGED <<retained, results, auc, completed, resp>>

\* load_and_clean_data, feature_engineering
TrainLoad ==
    /\ At("load")
    /\ pc' = "enc_new"
    /\ UNCHANGED <<retained, run, results, auc, runs, completed, start, trainResp, resp>>

\* prepare_features(fit_encoders=True): self.label_encoders['Gender'] = LabelEncoder()
TrainEncNew ==
    /\ At("enc_new")
    /\ label_encoders' = [g \in {"Gender"} |-> NewLabelEncoder(run)]
    /\ pc' = "enc_fit"
    /\ UNCHANGED <<models, best_model, best_model_name, model_results, X_test_global,
                   y_test_global, run, results, auc, runs, completed, start,
                   trainResp, resp>>

\* prepare_features(fit_encoders=True): ...fit_transform(X['Gender'])
TrainEncFit ==
    /\ At("enc_fit")
    /\ label_encoders' = [label_encoders EXCEPT
                             !["Gender"] = FittedLabelEncoder(run, TrainGenders)]
    /\ pc' = "split"
    /\ UNCHANGED <<models, best_model, best_model_name, model_results, X_test_global,
                   y_test_global, run, results, auc, runs, completed, start,
                   trainResp, resp>>

\* train_test_split
TrainSplit ==
    /\ At("split")
    /\ pc' = "store_X"
    /\ UNCHANGED <<retained, run, results, auc, runs, completed, start, trainResp, resp>>

\* X_test_global = X_test
TrainStoreX ==
    /\ At("store_X")
    /\ X_test_global' = run
    /\ pc' = "store_y"
    /\ UNCHANGED <<models, best_model, best_model_name, label_encoders, model_results,
                   y_test_global, run, results, auc, runs, completed, start,
                   trainResp, resp>>

\* y_test_global = y_test; train_models is entered: results = {}
TrainStoreY ==
    /\ At("store_y")
    /\ y_test_global' = run
    /\ results' = NewResults
    /\ pc' = "fit"
    /\ UNCHANGED <<models, best_model, best_model_name, label_encoders, model_results,
                   X_test_global, run, auc, runs, completed, start, trainResp, resp>>

\* one turn of the loop over the menu: fit, predict, score, results[name] = ...
TrainFitOne ==
    /\ At("fit")
    /\ Len(results) < Len(Menu)
    /\ LET name == Menu[Len(results) + 1]
       IN  results' = DictSet(results, name, ResultEntry(name, run))
    /\ UNCHANGED <<retained, pc, run, auc, runs, completed, start, trainResp, resp>>

\* the loop is over: best_model_name = max(...); self.best_model = ...
TrainSetBestModel ==
    /\ At("fit")
    /\ Len(results) = Len(Menu)
    /\ best_model' = Get(results, PickBest(results)).model
    /\ pc' = "set_name"
    /\ UNCHANGED <<models, best_model_name, label_encoders, model_results, X_test_global,
                   y_test_global, run, results, auc, runs, completed, start,
                   trainResp, resp>>

\* self.best_model_name = best_model_name
TrainSetBestName ==
    /\ At("set_name")
    /\ best_model_name' = PickBest(results)
    /\ pc' = "set_models"
    /\ UNCHANGED <<models, best_model, label_encoders, model_results, X_test_global,
                   y_test_global, run, results, auc, runs, completed, start,
                   trainResp, resp>>

\* self.models = results; return results
TrainSetModels ==
    /\ At("set_models")
    /\ models' = RetainedResults(results)
    /\ pc' = "set_results"
    /\ UNCHANGED <<best_model, best_model_name, label_encoders, model_results,
                   X_test_global, y_test_global, run, results, auc, runs, completed,
                   start, trainResp, resp>>

\* model_results = predictor.train_models(...); return jsonify(success)
TrainSetResults ==
    /\ At("set_results")
    /\ model_results' = models
    /\ trainResp' = [kind |-> "ok", best_model |-> best_model_name,
                     metrics |-> Get(models, best_model_name).metrics]
    /\ completed' = TRUE
    /\ results' = <<>>
    /\ pc' = "idle"
    /\ UNCHANGED <<models, best_model, best_model_name, label_encoders, X_test_global,
                   y_test_global, run, auc, runs, start, resp>>

\* the statements of the try block that call into the libraries
FailPoints == {"load", "enc_fit", "split", "fit"}

\* (mutant of TrainFail: the handler forgets the best model when a run fails)
TrainFail_Reset ==
    /\ \E at \in FailPoints : At(at)
    /\ trainResp' = [kind |-> "error"]
    /\ results' = <<>>
    /\ pc' = "idle"
    /\ best_model' = NoModel
    /\ UNCHANGED <<models, best_model_name, label_encoders, model_results, X_test_global,
                   y_test_global, run, auc, runs, completed, start, resp>>

\* an exception is raised there: except Exception -> jsonify(error)
TrainFail ==
    /\ \E at \in FailPoints : At(at)
    /\ trainResp' = [kind |-> "error"]
    /\ results' = <<>>
    /\ pc' = "idle"
    /\ UNCHANGED <<retained, run, auc, runs, completed, start, resp>>

(***************************************************************************)
(* The requests other threads serve, and a direct call of predict_single   *)
(***************************************************************************)
Genders == {"F", "M", "Other"}

Rec(fields, g) == [fields |-> fields, Gender |-> g]

\* the records submitted: a complete one of a gender the training data holds, a
\* complete one of a gender it does not hold, one with the raw fields only, one
\* lacking a raw field, and an empty one
Records ==
    {Rec(feature_cols, "F"), Rec(feature_cols, "Other"), Rec(raw_cols, "F"),
     Rec(feature_cols \ {"Age"}, "F"), Rec({}, "F")}

\* what a recorded response carries besides the handler's outcome
Stamp(op, rec) == [op |-> op, record |-> rec]

Merge(a, b) == [k \in DOMAIN a \cup DOMAIN b |-> IF k \in DOMAIN a THEN a[k] ELSE b[k]]

\* SVC's label is drawn apart from its probability; the other models' is not
SvcLabels == IF best_model.algo = "SVM" THEN {0, 1} ELSE {0}

\* self.label_encoders after predict_single(rec): prepare_features is entered
\* in apply mode once the model is known to be trained
EncodersAfterPredict(rec) ==
    IF best_model = NoModel THEN label_encoders
    ELSE StoredAfterApply(rec, label_encoders)

\* POST /predict
Predict ==
    /\ resp = NoResp
    /\ \E rec \in Records, p \in Probs, svc_label \in SvcLabels :
          /\ resp' = Merge(Stamp("predict", rec), predict(rec, p, svc_label))
          /\ label_encoders' = EncodersAfterPredict(rec)
    /\ UNCHANGED <<models, best_model, best_model_name, model_results, X_test_global,
                   y_test_global, pc, run, results, auc, runs, completed, start,
                   trainResp>>

\* predictor.predict_single(patient_data), called directly
PredictSingle ==
    /\ resp = NoResp
    /\ \E rec \in Records, p \in Probs, svc_label \in SvcLabels :
          /\ resp' = Merge(Stamp("predict_single", rec),
                           predict_single(rec, p, svc_label))
          /\ label_encoders' = EncodersAfterPredict(rec)
    /\ UNCHANGED <<models, best_model, best_model_name, model_results, X_test_global,
                   y_test_global, pc, run, results, auc, runs, completed, start,
                   trainResp>>

\* GET /model_performance
ModelPerformance ==
    /\ resp = NoResp
    /\ resp' = Merge(Stamp("model_performance", Rec({}, "F")), model_performance)
    /\ UNCHANGED <<retained, pc, run, results, auc, runs, completed, start, trainResp>>

\* the response reaches its client
Deliver ==
    /\ resp # NoResp
    /\ resp' = NoResp
    /\ UNCHANGED <<retained, pc, run, results, auc, runs, completed, start, trainResp>>

Next ==
    \/ TrainBegin
    \/ TrainLoad
    \/ TrainEncNew
    \/ TrainEncFit
    \/ TrainSplit
    \/ TrainStoreX
    \/ TrainStoreY
    \/ TrainFitOne
    \/ TrainSetBestModel
    \/ TrainSetBestName
    \/ TrainSetModels
    \/ TrainSetResults
    \/ TrainFail
    \/ Predict
    \/ PredictSingle
    \/ ModelPerformance
    \/ Deliver

Spec == Init /\ [][Next]_vars

(***************************************************************************)
(* DataPreprocessor.feature_engineering, on a table of one row: a table is *)
(* a function from its column names to the row's values                    *)
(***************************************************************************)
\* the oldest age and the longest wait load_and_clean_data generates
MaxAge == 95
MaxDays == 179

\* df[col] = v
SetCol(df, col, v) ==
    [k \in DOMAIN df \cup {col} |-> IF k = col THEN v ELSE df[k]]

\* (condition).astype(int)
AsInt(b) == IF b THEN 1 ELSE 0

\* pd.to_datetime of a column of date strings
to_datetime(v) == [v EXCEPT !.dtype = "datetime64"]

AgeBins == <<0, 18, 35, 50, 65, 100>>
AgeLabels == <<"child", "young_adult", "adult", "middle_aged", "senior">>

\* pd.cut(x, bins, labels) with its defaults right=True, include_lowest=False:
\* label i is given to bins[i] < x <= bins[i+1], and NaN outside every bin
PdCut(x, bins, labels) ==
    IF \E i \in 1..Len(labels) : bins[i] < x /\ x <= bins[i + 1]
    THEN labels[CHOOSE i \in 1..Len(labels) : bins[i] < x /\ x <= bins[i + 1]]
    ELSE "NaN"

\* (mutant of Clip: the upper limit is not applied)
ClipBelowOnly(x, lo, hi) == IF x < lo THEN lo ELSE x

\* np.clip(x, lo, hi)
Clip(x, lo, hi) == IF x < lo THEN lo ELSE IF x > hi THEN hi ELSE x

\* df['total_conditions']
total_conditions(df) ==
    df.Hipertension + df.Diabetes + df.Alcoholism + AsInt(df.Handcap > 0)

\* df['risk_score'], in 1/300: the weights 0.3, 0.1, 0.4, 0.3, 0.2 are 90, 30,
\* 120, 90, 60; days_between / 30.0 is days_between thirtieths, clipped to
\* 0..30 thirtieths, and a thirtieth times 0.3 is 3
risk_score(df) ==
    AsInt(df.Age < 18) * 90
    + AsInt(df.Age > 80) * 30
    + (1 - df.SMS_received) * 120
    + Clip(df.days_between, 0, 30) * 3
    + df.Scholarship * 60

\* df['is_weekend']
is_weekend(df) == AsInt(df.appointment_weekday = 5 \/ df.appointment_weekday = 6)

\* the statements of feature_engineering after df = df.copy()
Engineer(df) ==
    LET d1 == IF df.ScheduledDay.dtype # "datetime64"
              THEN SetCol(df, "ScheduledDay", to_datetime(df.ScheduledDay)) ELSE df
        d2 == IF d1.AppointmentDay.dtype # "datetime64"
              THEN SetCol(d1, "AppointmentDay", to_datetime(d1.AppointmentDay)) ELSE d1
        d3 == IF "scheduled_hour" \notin DOMAIN d2
              THEN SetCol(d2, "scheduled_hour", d2.ScheduledDay.hour) ELSE d2
        d4 == SetCol(d3, "age_group", PdCut(d3.Age, AgeBins, AgeLabels))
        d5 == SetCol(d4, "total_conditions", total_conditions(d4))
        d6 == SetCol(d5, "risk_score", risk_score(d5))
    IN  SetCol(d6, "is_weekend", is_weekend(d6))

\* (mutant of feature_engineering: no copy is taken, the caller's table is
\* the one the columns are written to)
feature_engineering_InPlace(df) == [arg |-> Engineer(df), ret |-> Engineer(df)]

\* feature_engineering(df): the table returned, and the caller's table after
\* the call
feature_engineering(df) == [arg |-> df, ret |-> Engineer(df)]

(***************************************************************************)
(* DataPreprocessor.load_and_clean_data, one generated row.  The two       *)
(* exponential samples are given in tenths; dates are day numbers counted  *)
(* from base_date                                                          *)
(***************************************************************************)
\* np.clip(sample, 0, hi).astype(int), of a sample in tenths
ClipAsInt(sample, hi) == Clip(sample, 0, hi * 10) \div 10

\* (mutant of load_and_clean_data: the appointment is counted from base_date,
\* not from the day of scheduling)
load_and_clean_data_FromBase(age_sample, days_sample, handcap, offset) ==
    LET ages == ClipAsInt(age_sample, MaxAge)
        days_between == ClipAsInt(days_sample, MaxDays)
    IN  [Age |-> ages, Handcap |-> handcap, days_between |-> days_between,
         ScheduledDay |-> [dtype |-> "datetime64", day |-> offset, hour |-> 0],
         AppointmentDay |-> [dtype |-> "datetime64", day |-> days_between, hour |-> 0]]

\* the columns of a generated row the claims speak of
load_and_clean_data(age_sample, days_sample, handcap, offset) ==
    LET ages == ClipAsInt(age_sample, MaxAge)
        days_between == ClipAsInt(days_sample, MaxDays)
        scheduled == offset
    IN  [Age |-> ages, Handcap |-> handcap, days_between |-> days_between,
         ScheduledDay |-> [dtype |-> "datetime64", day |-> scheduled, hour |-> 0],
         AppointmentDay |-> [dtype |-> "datetime64", day |-> scheduled + days_between,
                             hour |-> 0]]

(***************************************************************************)
(* The script run: the models are trained once before the server starts,   *)
(* and the preprocessor's methods are called directly                      *)
(***************************************************************************)
RECURSIVE FitMenu(_, _)
\* the loop of train_models run to its end
FitMenu(res, r) ==
    IF Len(res) = Len(Menu) THEN res
    ELSE FitMenu(DictSet(res, Menu[Len(res) + 1], ResultEntry(Menu[Len(res) + 1], r)), r)

\* the scores of the one seeded run the script makes
InitUnit == Init /\ auc = [m \in MenuSet |-> 0]

\* __main__: load, engineer, prepare (fit mode), train_models, before
\* app.run; no request is served meanwhile
StartupTrain ==
    /\ pc = "idle" /\ runs = 0 /\ resp = NoResp
    /\ LET res == FitMenu(NewResults, 1)
           name == PickBest(res)
       IN  /\ label_encoders' = [g \in {"Gender"} |->
                                   FittedLabelEncoder(1, TrainGenders)]
           /\ best_model' = Get(res, name).model
           /\ best_model_name' = name
           /\ models' = RetainedResults(res)
    /\ runs' = 1
    /\ run' = 1
    /\ completed' = TRUE
    /\ X_test_global' = 1
    /\ y_test_global' = 1
    /\ model_results' = models'
    /\ UNCHANGED <<pc, results, auc, start, trainResp, resp>>

\* the tables handed to prepare_features directly: complete ones of each
\* gender, and one with the raw fields only
PrepRecords == {Rec(feature_cols, g) : g \in Genders} \cup {Rec(raw_cols, "F")}

\* preprocessor.prepare_features(df, fit_encoders=False), called directly
PrepareApply ==
    /\ resp = NoResp
    /\ \E rec \in PrepRecords :
          /\ resp' = Merge([op |-> "prepare_features", record |-> rec,
                            before |-> label_encoders],
                           prepare_features_apply(rec, label_encoders))
          /\ label_encoders' = StoredAfterApply(rec, label_encoders)
    /\ UNCHANGED <<models, best_model, best_model_name, model_results, X_test_global,
                   y_test_global, pc, run, results, auc, runs, completed, start,
                   trainResp>>

\* the records sent to /predict after the startup training: one lacking each
\* raw field in turn, and a complete one
LackingRecords ==
    {Rec(feature_cols \ {f}, "F") : f \in raw_cols} \cup {Rec(feature_cols, "F")}

\* POST /predict, served once the server has started
PredictServed ==
    /\ resp = NoResp
    /\ completed
    /\ \E rec \in LackingRecords, p \in Probs, svc_label \in SvcLabels :
          /\ resp' = Merge(Stamp("predict", rec), predict(rec, p, svc_label))
          /\ label_encoders' = EncodersAfterPredict(rec)
    /\ UNCHANGED <<models, best_model, best_model_name, model_results, X_test_global,
                   y_test_global, pc, run, results, auc, runs, completed, start,
                   trainResp>>

\* a raw row: its date columns hold a day number counted from base_date
RawRow(age, sms, days, sch, cond, weekday, date) ==
    [Age |-> age, SMS_received |-> sms, days_between |-> days, Scholarship |-> sch,
     Hipertension |-> cond[1], Diabetes |-> cond[2], Alcoholism |-> cond[3],
     Handcap |-> cond[4], appointment_weekday |-> weekday,
     ScheduledDay |-> [dtype |-> date[1], day |-> 0, hour |-> date[2]],
     AppointmentDay |-> [dtype |-> date[1], day |-> days, hour |-> 0]]

\* rows of every age, wait, reminder flag and scholarship flag
RiskRows ==
    {RawRow(age, sms, days, sch, <<0, 0, 0, 0>>, 0, <<"datetime64", 0>>) :
        age \in 0..MaxAge, sms \in 0..1, days \in 0..MaxDays, sch \in 0..1}

\* rows of every combination of conditions, weekday and kind of date column
ConditionRows ==
    {RawRow(30, 1, 7, 0, cond, weekday, date) :
        cond \in (0..1) \X (0..1) \X (0..1) \X (0..4), weekday \in 0..6,
        date \in {"datetime64", "object"} \X {0, 9}}

\* tables that bear the derived columns already
EngineeredRows == {Engineer(df) : df \in ConditionRows}

\* preprocessor.feature_engineering(df), called directly
FeatureEngineering ==
    /\ resp = NoResp
    /\ \E df \in RiskRows \cup ConditionRows \cup EngineeredRows :
          resp' = Merge([op |-> "feature_engineering", df |-> df],
                        feature_engineering(df))
    /\ UNCHANGED <<retained, pc, run, results, auc, runs, completed, start, trainResp>>

\* exponential samples in tenths, around the limits of the two clips
AgeSamples == {0, 9, 10, 179, 180, MaxAge * 10 - 1, MaxAge * 10, MaxAge * 10 + 1,
               MaxAge * 20}
DaysSamples == {0, 9, 10, 300, MaxDays * 10 - 1, MaxDays * 10, MaxDays * 10 + 1,
                MaxDays * 20}

\* preprocessor.load_and_clean_data(filepath), one of its rows
LoadAndClean ==
    /\ resp = NoResp
    /\ \E age_sample \in AgeSamples, days_sample \in DaysSamples,
          handcap \in 0..4, offset \in -30..0 :
          resp' = [op |-> "load_and_clean_data",
                   row |-> load_and_clean_data(age_sample, days_sample, handcap, offset)]
    /\ UNCHANGED <<retained, pc, run, results, auc, runs, completed, start, trainResp>>

NextUnit ==
    \/ StartupTrain
    \/ PrepareApply
    \/ PredictServed
    \/ FeatureEngineering
    \/ LoadAndClean
    \/ Deliver

SpecUnit == InitUnit /\ [][NextUnit]_vars

(***************************************************************************)
(* Claims                                                                  *)
(***************************************************************************)
PredictOps == {"predict", "predict_single"}

\* no training run has got as far as storing its best model
NoRunFinished == ~completed /\ pc \notin {"set_name", "set_models", "set_results"}

\* train_models has returned in this run, or in an earlier successful one and
\* no run is in progress
TrainModelsDone == pc = "set_results" \/ (pc = "idle" /\ completed)

MenuIndex(n) == CHOOSE i \in 1..Len(Menu) : Menu[i] = n

AucOf(res, n) == Get(res, n).metrics.roc_auc

\* C1: a /predict or /model_performance request served while a /train is in
\* progress uses retained objects (best model, results, test set, gender
\* encoder) of one training run only: all of the previous run or all of the
\* new one.
C1_ReadersSeeOneRun ==
    (resp.op \in {"predict", "model_performance"} /\ pc # "idle")
        => Cardinality(resp.read) <= 1

\* C2: after a /train that failed, the retained state (best model, its name,
\* the results, the test set, the gender encoder) is the one retained when
\* that /train began, whenever an earlier run had left results.
C2_FailedTrainKeepsState ==
    (pc = "idle" /\ trainResp.kind = "error" /\ start.best_model # NoModel)
        => Snapshot = start

C4_MetricsFetch ==
    resp.op = "model_performance"
        => IF ~completed
           THEN /\ resp.kind = "error"
                /\ resp.error = "Model not trained yet"
                /\ "metrics" \notin DOMAIN resp
           ELSE /\ resp.kind = "ok"
                /\ resp.best_model = best_model.algo
                /\ resp.metrics = ResultEntry(best_model.algo, best_model.run).metrics

\* the metrics served are those of a best model that is not the menu's first
C4_Witness ==
    /\ resp.op = "model_performance"
    /\ completed
    /\ resp.kind = "ok"
    /\ resp.best_model = "SVM"
    /\ resp.metrics.roc_auc = auc["SVM"]

\* C5: once train_models has completed, the retained best model is the one
\* of maximal ROC-AUC over the menu, and of the algorithms that reach the
\* maximum it is the earliest in menu order.
C5_BestIsFirstMaximal ==
    TrainModelsDone
        => /\ \A m \in MenuSet : HasKey(models, m)
           /\ best_model_name \in MenuSet
           /\ \A m \in MenuSet : AucOf(models, m) <= AucOf(models, best_model_name)
           /\ \A m \in MenuSet :
                 MenuIndex(m) < MenuIndex(best_model_name)
                     => AucOf(models, m) < AucOf(models, best_model_name)
           /\ best_model = Get(models, best_model_name).model

\* two later algorithms tie at the maximum and the earlier of them is retained
C5_Witness ==
    /\ pc = "set_results"
    /\ auc["Random Forest"] < auc["Gradient Boosting"]
    /\ auc["Gradient Boosting"] = auc["SVM"]
    /\ auc["Logistic Regression"] <= auc["SVM"]
    /\ best_model_name = "Gradient Boosting"
    /\ best_model.algo = "Gradient Boosting"

\* an entry of run r with its model, its five metrics, its labels and its
\* probabilities
CompleteEntry(e, r) ==
    /\ DOMAIN e = {"name", "model", "metrics", "predictions", "probabilities"}
    /\ DOMAIN e.metrics = {"accuracy", "precision", "recall", "f1", "roc_auc"}
    /\ e.model = [algo |-> e.name, run |-> r]
    /\ e.predictions = [of |-> e.name, on |-> r]
    /\ e.probabilities = [of |-> e.name, on |-> r]

\* C6: after a completed training run the retained results hold one complete
\* entry for every algorithm of the menu, all of that run, and none of an
\* earlier run.
C6_AllEntriesRetained ==
    /\ TrainModelsDone
          => /\ Len(models) = Len(Menu)
             /\ \A i \in 1..Len(Menu) :
                   /\ i <= Len(models)
                   /\ models[i].name = Menu[i]
                   /\ CompleteEntry(models[i], best_model.run)
    /\ pc = "set_results" => best_model.run = run
    /\ (pc = "idle" /\ completed) => model_results = models

\* a second run has completed and replaced every entry of the first
C6_Witness ==
    /\ pc = "idle"
    /\ trainResp.kind = "ok"
    /\ run = 2
    /\ start.best_model.run = 1
    /\ Len(start.model_results) = Len(Menu)
    /\ Len(model_results) = Len(Menu)
    /\ \A i \in 1..Len(model_results) : model_results[i].model.run = 2

\* C7: the risk tier of a prediction is High iff its probability is above
\* 0.6, Medium iff it is above 0.3 and at most 0.6, Low iff it is at most 0.3.
C7_RiskTier ==
    (resp.op \in PredictOps /\ resp.kind = "ok")
        => LET p == resp.no_show_probability
           IN  /\ resp.risk_level = "High" <=> p > 600
               /\ resp.risk_level = "Medium" <=> (p > 300 /\ p <= 600)
               /\ resp.risk_level = "Low" <=> p <= 300

\* a probability of exactly 0.6 is served as Medium
C7_Witness ==
    /\ resp.op = "predict"
    /\ resp.kind = "ok"
    /\ resp.no_show_probability = 600
    /\ resp.risk_level = "Medium"

\* C8: the decision of a prediction is its probability thresholded at 0.5:
\* 1 above 0.5 and 0 below, whichever model of the menu is retained (stated
\* here for the requests served while no /train is in progress).
C8_DecisionFollowsProbability ==
    (resp.op \in PredictOps /\ resp.kind = "ok" /\ pc = "idle")
        => /\ resp.no_show_probability > 500 => resp.prediction = 1
           /\ resp.no_show_probability < 500 => resp.prediction = 0

\* C9: with a trained model (a /train has succeeded and none is in progress),
\* a record that carries the raw fields only gets a prediction, not an error.
C9_RawRecordAccepted ==
    (/\ resp.op \in PredictOps
     /\ pc = "idle"
     /\ trainResp.kind = "ok"
     /\ best_model # NoModel
     /\ resp.record = Rec(raw_cols, "F"))
        => resp.kind = "ok"

\* C10: after a training run (a /train has succeeded and none is in progress:
\* the encoder is fitted, the model trained), a complete record whose gender
\* the training data did not hold gets a prediction, not an error.
C10_UnseenGenderAccepted ==
    (/\ resp.op \in PredictOps
     /\ pc = "idle"
     /\ trainResp.kind = "ok"
     /\ best_model # NoModel
     /\ "Gender" \in DOMAIN label_encoders
     /\ label_encoders["Gender"].fitted
     /\ resp.record = Rec(feature_cols, "Other"))
        => resp.kind = "ok"

\* C11: prepare_features in apply mode, called on a complete table while no
\* Gender mapping is stored, does not raise, encodes 'F' as 0, 'M' as 1 and
\* every other gender as 0, and leaves the stored mappings empty.
C11_FallbackEncoding ==
    (resp.op = "prepare_features" /\ resp.before = <<>>
        /\ feature_cols \subseteq resp.record.fields)
        => /\ ~resp.raised
           /\ resp.Gender = (CASE resp.record.Gender = "F" -> 0
                               [] resp.record.Gender = "M" -> 1
                               [] OTHER -> 0)
           /\ label_encoders = <<>>

C11_Witness ==
    /\ resp.op = "prepare_features" /\ resp.before = <<>>
    /\ feature_cols \subseteq resp.record.fields
    /\ resp.record.Gender = "Other" /\ resp.Gender = 0 /\ ~resp.raised

\* C12: with a trained model, /predict on a record that lacks a required raw
\* field answers with an error that names every raw field the record lacks,
\* and returns no prediction.
C12_MissingFieldNamed ==
    (resp.op = "predict" /\ best_model # NoModel
        /\ ~(raw_cols \subseteq resp.record.fields))
        => /\ resp.kind = "error"
           /\ (raw_cols \ resp.record.fields) \subseteq resp.missing
           /\ "prediction" \notin DOMAIN resp
           /\ "no_show_probability" \notin DOMAIN resp

C12_Witness ==
    /\ resp.op = "predict" /\ best_model # NoModel
    /\ resp.record.fields = feature_cols \ {"days_between"}
    /\ resp.kind = "error" /\ resp.missing = {"days_between"}

\* the half-open bucketing the specification gives
RefAgeGroup(age) ==
    IF age < 18 THEN "child"
    ELSE IF age < 35 THEN "young_adult"
    ELSE IF age < 50 THEN "adult"
    ELSE IF age < 65 THEN "middle_aged"
    ELSE "senior"

\* C13: for every integer age from 0 to 95 the age_group feature_engineering
\* derives is the one of the half-open bucketing [0,18) child, [18,35)
\* young_adult, [35,50) adult, [50,65) middle_aged, [65,100] senior, so that
\* every age has a bucket and 0, 18, 65 fall in child, young_adult, senior.
C13_AgeGroupHalfOpen ==
    resp.op = "feature_engineering"
        => resp.ret.age_group = RefAgeGroup(resp.df.Age)

\* the specification's formula, in 1/300:
\* 0.3*[age<18] + 0.1*[age>80] + 0.4*(1-sms) + 0.3*min(days/30, 1) + 0.2*scholarship
RefRisk(age, sms, days, sch) ==
    (IF age < 18 THEN 90 ELSE 0) + (IF age > 80 THEN 30 ELSE 0)
    + 120 * (1 - sms) + (IF days * 3 < 90 THEN days * 3 ELSE 90) + 60 * sch

\* C14: for ages 0..95, waits 0..179 and 0/1 flags, risk_score equals the
\* specification's formula without any clamping of the sum, it does not
\* decrease when days_between grows by a day, and it does not decrease when
\* the reminder flag goes from 1 to 0.
C14_RiskScore ==
    resp.op = "feature_engineering" =>
        LET df == resp.df
            risk == resp.ret.risk_score
        IN  /\ risk = RefRisk(df.Age, df.SMS_received, df.days_between, df.Scholarship)
            /\ df.days_between < MaxDays =>
                  feature_engineering([df EXCEPT !.days_between = @ + 1]).ret.risk_score
                      >= risk
            /\ df.SMS_received = 1 =>
                  feature_engineering([df EXCEPT !.SMS_received = 0]).ret.risk_score
                      >= risk

\* age 10, no reminder, 40 days of wait, scholarship: 1.2, above 1
C14_Witness ==
    /\ resp.op = "feature_engineering"
    /\ resp.df.Age = 10 /\ resp.df.SMS_received = 0 /\ resp.df.days_between = 40
    /\ resp.df.Scholarship = 1
    /\ resp.ret.risk_score = 360

\* the columns feature_engineering writes
DerivedCols == {"scheduled_hour", "age_group", "total_conditions", "risk_score",
                "is_weekend"}

\* C15: feature_engineering leaves the table it is given as it was, and
\* applied to a table that bears the derived columns already (its own result
\* included) it succeeds with the same derived values: fe(fe(t)) = fe(t).
C15_PureAndRepeatable ==
    resp.op = "feature_engineering" =>
        /\ resp.arg = resp.df
        /\ feature_engineering(resp.ret).ret = resp.ret
        /\ feature_engineering(resp.ret).arg = resp.ret
        /\ DerivedCols \subseteq DOMAIN resp.df => resp.ret = resp.df

\* a table bearing the derived columns has been engineered again
C15_Witness ==
    /\ resp.op = "feature_engineering"
    /\ DerivedCols \subseteq DOMAIN resp.df
    /\ resp.df.total_conditions = 4 /\ resp.df.is_weekend = 1
    /\ resp.ret = resp.df /\ resp.arg = resp.df

\* C16: every generated row has days_between >= 0, an appointment day not
\* before its scheduling day and exactly days_between days after it, an age
\* within 0..95 and a handicap level within 0..4.
C16_GeneratedRow ==
    resp.op = "load_and_clean_data" =>
        /\ resp.row.days_between >= 0
        /\ resp.row.AppointmentDay.day >= resp.row.ScheduledDay.day
        /\ resp.row.AppointmentDay.day - resp.row.ScheduledDay.day
               = resp.row.days_between
        /\ resp.row.Age \in 0..95
        /\ resp.row.Handcap \in 0..4

\* a row whose two samples were clipped, scheduled thirty days before base_date
C16_Witness ==
    /\ resp.op = "load_and_clean_data"
    /\ resp.row.Age = 95 /\ resp.row.days_between = 179 /\ resp.row.Handcap = 4
    /\ resp.row.ScheduledDay.day = -30 /\ resp.row.AppointmentDay.day = 149

\* nothing is trained: no best model, no name, no models
FieldsUntrained ==
    best_model = NoModel /\ best_model_name = "None" /\ models = <<>>

\* the name is a key of models, the best model is that entry's model, and the
\* results /model_performance serves are those models
FieldsTrained ==
    /\ HasKey(models, best_model_name)
    /\ best_model = Get(models, best_model_name).model
    /\ model_results = models

\* C17: in every reachable state the predictor's fields are mutually
\* consistent: either nothing is trained (before the first completed
\* training), or best_model_name is a key of models, best_model is that
\* entry's model and model_results are those same models.
C17_FieldsConsistent ==
    IF completed \/ best_model # NoModel THEN FieldsTrained ELSE FieldsUntrained

ReaderOps == {"predict", "predict_single", "model_performance"}

\* C18: a step that serves predict_single, /predict or /model_performance,
\* with a result or with an error, leaves the retained state (best model, its
\* name, the models, the results, the test set, the gender mapping) as it was.
C18_ReadersReadOnly ==
    [][(resp = NoResp /\ resp'.op \in ReaderOps) => UNCHANGED retained]_vars

\* predictions have been served with a result and with an encoding error, and
\* the metrics have been fetched, while a trained state is retained
C18_Witness ==
    /\ resp.op = "predict_single" /\ resp.kind = "error" /\ resp.encoded
    /\ resp.error = "ValueError: unseen label"
    /\ best_model # NoModel /\ "Gender" \in DOMAIN label_encoders

\* C19: once a /train has succeeded, in every later state, whatever /train
\* (successful or failed), /predict and /model_performance requests followed,
\* best_model is set, results are retained, and a /predict or
\* /model_performance answer is not 'Model not trained yet'.
C19_StaysTrained ==
    completed =>
        /\ best_model # NoModel
        /\ Len(model_results) > 0
        /\ resp.op \in {"predict", "model_performance"}
              => resp.error # "Model not trained yet"

\* the metrics are served after a successful /train was followed by a failed one
C19_Witness ==
    /\ completed /\ pc = "idle" /\ trainResp.kind = "error"
    /\ resp.op = "model_performance" /\ resp.kind = "ok"

====
